---- MODULE Spec2Model ----
(***************************************************************************)
(* Loop fusion pass (LoopFusionPass): candidate building, the legality     *)
(* checker, the CFG / loop-tree transformer and the same-depth recursive   *)
(* driver, over a bounded family of procedures.                            *)
(***************************************************************************)
EXTENDS Integers, Sequences, FiniteSets, TLC

\* Largest number of sibling loops in one procedure of the family.
MaxSiblings == 3

\* The loop bound of the test procedure, 0xFFFF.
StopFFFF == 65535

(***************************************************************************)
(* Values.  A Value* is a record; identity of the pointer is equality of   *)
(* the record.  k = "c": an llvm::Constant (uniqued, so identity is type + *)
(* class + bits), k = "v": any other value (an alloca, a load result, an   *)
(* instruction result), k = "null": nullptr.                               *)
(***************************************************************************)
Null == [k |-> "null", cls |-> "-", ty |-> "-", bits |-> 0, name |-> "-", idx |-> 0]

MkConst(cls, ty, bits) ==
    [k |-> "c", cls |-> cls, ty |-> ty, bits |-> bits, name |-> "-", idx |-> 0]

MkVal(name, idx) ==
    [k |-> "v", cls |-> "-", ty |-> "-", bits |-> 0, name |-> name, idx |-> idx]

IsConstant(v) == v.k = "c"

IsConstantInt(v) == v.k = "c" /\ v.cls = "int"

IsConstantFP(v) == v.k = "c" /\ v.cls = "fp"

(***************************************************************************)
(* Instructions.  op is the instruction class, a0 and a1 its operands 0    *)
(* and 1, res the value the instruction itself is, opc the opcode of a     *)
(* binary operator.  Terminators are kept apart, as the successor lists.   *)
(***************************************************************************)
NoOpc == "-"

Load(res, ptr) ==
    [op |-> "load", opc |-> NoOpc, a0 |-> ptr, a1 |-> Null, res |-> res, vol |-> FALSE]

VolatileLoad(res, ptr) ==
    [op |-> "load", opc |-> NoOpc, a0 |-> ptr, a1 |-> Null, res |-> res, vol |-> TRUE]

Store(val, ptr) ==
    [op |-> "store", opc |-> NoOpc, a0 |-> val, a1 |-> ptr, res |-> Null, vol |-> FALSE]

ICmp(res, lhs, rhs) ==
    [op |-> "icmp", opc |-> NoOpc, a0 |-> lhs, a1 |-> rhs, res |-> res, vol |-> FALSE]

BinOp(res, opc, lhs, rhs) ==
    [op |-> "binop", opc |-> opc, a0 |-> lhs, a1 |-> rhs, res |-> res, vol |-> FALSE]

GEP(res, base) ==
    [op |-> "gep", opc |-> NoOpc, a0 |-> base, a1 |-> Null, res |-> res, vol |-> FALSE]

\* A call to a function that is not nounwind: Instruction::mayThrow().
Call(res) ==
    [op |-> "call", opc |-> NoOpc, a0 |-> Null, a1 |-> Null, res |-> res, vol |-> FALSE]

(***************************************************************************)
(* Blocks and loops.  A block is <<kind, k>>: k = 0 for the blocks of the  *)
(* enclosing loop and of the procedure, k >= 1 for sibling loop k.         *)
(***************************************************************************)
NoBlock == <<"null", 0>>

NoLoop == -1

Outer == 0

Siblings == 1..MaxSiblings

Loops == {Outer} \cup Siblings

BlockKinds == {"gap", "pre", "cond", "body", "inc", "end"}

AllBlocks == {<<"entry", 0>>} \cup (BlockKinds \X (0..MaxSiblings))

Entry == <<"entry", 0>>

\* Sequence helpers.
RECURSIVE SeqToSet(_)
SeqToSet(s) == IF s = <<>> THEN {} ELSE {Head(s)} \cup SeqToSet(Tail(s))

RECURSIVE Flatten(_)
Flatten(ss) == IF ss = <<>> THEN <<>> ELSE Head(ss) \o Flatten(Tail(ss))

Contains(s, e) == \E i \in 1..Len(s) : s[i] = e

RemoveAll(s, e) == SelectSeq(s, LAMBDA y : y # e)

Replace(s, a, b) == [i \in 1..Len(s) |-> IF s[i] = a THEN b ELSE s[i]]

Reverse(s) == [i \in 1..Len(s) |-> s[Len(s) + 1 - i]]


(***************************************************************************)
(* The procedures of the family.  A procedure is either nested (one outer  *)
(* loop whose body is a sequence of sibling loops) or flat (the sibling    *)
(* loops are the top-level loops, as in doit1), and each sibling loop is   *)
(* a counted for-loop as the C front end emits it without optimisation:    *)
(*   preheader: store start, i     header (for.cond): load i; icmp; br     *)
(*   body (for.body)               latch (for.inc): load i; binop; store i *)
(*   exit (for.end), which is the next sibling's preheader.                *)
(* A loop kind changes one feature of that shape.                          *)
(***************************************************************************)
LoopKinds ==
    { "base",      \* for (i = 1; i < 0xFFFF; i *= 2) { x_k = ...; i = ...; }
      "stopFF",    \* the bound is 0xFF
      "stopBoth",  \* the header compares with n and with 0xFFFF
      "stopNull",  \* the header compares with a null pointer constant
      "noStore",   \* the body does not store the counter (doit1)
      "sharedW",   \* the body also stores to s
      "sharedR",   \* the body also loads from s
      "gap" }      \* two more blocks precede the header

\* More shapes, for the scenarios further down.
ShapeKinds ==
    { "base",
      "latchExit",   \* the exit branch is in the latch (a rotated loop)
      "startMixed",  \* the preheader stores a constant, then a loaded value
      "startVar",    \* the preheader stores a loaded value only
      "advMixed",    \* the latch multiplies by 2, then adds a loaded value
      "advAdd",      \* i += 2
      "sharedI",     \* the counter is the location j the siblings share
      "custom" }     \* the body is the procedure's body field

Var(name, k) == MkVal(name, k)

ConstInt(n) == MkConst("int", "i32", n)

ConstNullPtr == MkConst("other", "ptr", 0)

\* The counter of sibling k.
Counter(kind, k) == IF kind = "sharedI" THEN Var("j", 0) ELSE Var("i", k)

HeaderInstrs(kind, k) ==
    <<Load(Var("ld.i", k), Counter(kind, k))>>
    \o (IF kind = "stopBoth"
        THEN <<Load(Var("ld.n", k), Var("n", 0)),
               ICmp(Var("cmp.n", k), Var("ld.i", k), Var("ld.n", k))>>
        ELSE <<>>)
    \o <<ICmp(Var("cmp", k), Var("ld.i", k),
              CASE kind = "stopFF" -> ConstInt(255)
                [] kind = "stopNull" -> ConstNullPtr
                [] OTHER -> ConstInt(StopFFFF))>>

BodyInstrs(kind, k) ==
    <<Load(Var("ld.x", k), Var("x", k))>>
    \o (IF kind = "sharedR" THEN <<Load(Var("ld.s", k), Var("s", 0))>> ELSE <<>>)
    \o <<Store(Var("r", k), Var("x", k))>>
    \o (IF kind = "sharedW" THEN <<Store(Var("r", k), Var("s", 0))>> ELSE <<>>)
    \o (IF kind = "noStore" THEN <<>> ELSE <<Store(Var("ld.x", k), Counter(kind, k))>>)

LatchInstrs(kind, k) ==
    <<Load(Var("ld.inc", k), Counter(kind, k))>>
    \o (CASE kind = "advAdd" ->
               <<BinOp(Var("add", k), "add", Var("ld.inc", k), ConstInt(2)),
                 Store(Var("add", k), Counter(kind, k))>>
           [] kind = "advMixed" ->
               <<BinOp(Var("mul", k), "mul", Var("ld.inc", k), ConstInt(2)),
                 Load(Var("ld.m", k), Var("m", 0)),
                 BinOp(Var("add", k), "add", Var("mul", k), Var("ld.m", k)),
                 Store(Var("add", k), Counter(kind, k))>>
           [] OTHER ->
               <<BinOp(Var("mul", k), "mul", Var("ld.inc", k), ConstInt(2)),
                 Store(Var("mul", k), Counter(kind, k))>>)

StartInstrs(kind, k) ==
    CASE kind = "startMixed" ->
           <<Store(ConstInt(1), Counter(kind, k)),
             Load(Var("ld.n", k), Var("n", 0)),
             Store(Var("ld.n", k), Var("t", k))>>
      [] kind = "startVar" ->
           <<Load(Var("ld.n", k), Var("n", 0)),
             Store(Var("ld.n", k), Counter(kind, k))>>
      [] OTHER -> <<Store(ConstInt(1), Counter(kind, k))>>

\* The block that holds sibling k's start store and branches to its header.
PreheaderOf(p, k) ==
    IF p.kinds[k] = "gap" THEN <<"pre", k>>
    ELSE IF k > 1 THEN <<"end", k - 1>>
    ELSE IF p.nested THEN <<"body", 0>> ELSE Entry

\* Where control goes on leaving the block before sibling k.
FirstOf(p, k) == IF p.kinds[k] = "gap" THEN <<"gap", k>> ELSE <<"cond", k>>

NSib(p) == Len(p.kinds)

ProcBlocks(p) ==
    {Entry}
    \cup (IF p.nested THEN {"cond", "body", "inc", "end"} \X {0} ELSE {})
    \cup ({"cond", "body", "inc", "end"} \X (1..NSib(p)))
    \cup {b \in {"gap", "pre"} \X (1..NSib(p)) : p.kinds[b[2]] = "gap"}

\* The terminator's successors of each block (<<>>: ret or unreachable).
ProcSucc(p) ==
    [b \in AllBlocks |->
       IF b \notin ProcBlocks(p) THEN <<>>
       ELSE CASE b = Entry -> IF p.nested THEN << <<"cond", 0>> >> ELSE <<FirstOf(p, 1)>>
              [] b[2] = 0 /\ b[1] = "cond" -> << <<"body", 0>>, <<"end", 0>> >>
              [] b[2] = 0 /\ b[1] = "body" -> <<FirstOf(p, 1)>>
              [] b[2] = 0 /\ b[1] = "inc" -> << <<"cond", 0>> >>
              [] b[2] = 0 /\ b[1] = "end" -> <<>>
              [] b[1] = "gap" -> << <<"pre", b[2]>> >>
              [] b[1] = "pre" -> << <<"cond", b[2]>> >>
              [] b[1] = "cond" ->
                   IF p.kinds[b[2]] = "latchExit" THEN << <<"body", b[2]>> >>
                   ELSE << <<"body", b[2]>>, <<"end", b[2]>> >>
              [] b[1] = "body" -> << <<"inc", b[2]>> >>
              [] b[1] = "inc" ->
                   IF p.kinds[b[2]] = "latchExit" THEN << <<"cond", b[2]>>, <<"end", b[2]>> >>
                   ELSE << <<"cond", b[2]>> >>
              [] b[1] = "end" ->
                   IF b[2] < NSib(p) THEN <<FirstOf(p, b[2] + 1)>>
                   ELSE IF p.nested THEN << <<"inc", 0>> >> ELSE <<>>
              [] OTHER -> <<>>]

\* The start stores that block b holds, as the preheader of some sibling.
StartsIn(p, b) ==
    Flatten([k \in 1..NSib(p) |->
               IF PreheaderOf(p, k) = b THEN StartInstrs(p.kinds[k], k) ELSE <<>>])

ProcInstrs(p) ==
    [b \in AllBlocks |->
       IF b \notin ProcBlocks(p) THEN <<>>
       ELSE CASE b = Entry ->
                   (IF p.nested THEN <<Store(ConstInt(0), Var("i", 0))>>
                    ELSE [k \in 1..NSib(p) |-> Store(ConstInt(1), Var("x", k))])
                   \o StartsIn(p, b)
              [] b[2] = 0 /\ b[1] = "cond" ->
                   <<Load(Var("ld.i", 0), Var("i", 0)),
                     ICmp(Var("cmp", 0), Var("ld.i", 0), ConstInt(10))>>
              [] b[2] = 0 /\ b[1] = "inc" ->
                   <<Load(Var("ld.inc", 0), Var("i", 0)),
                     BinOp(Var("add", 0), "add", Var("ld.inc", 0), ConstInt(1)),
                     Store(Var("add", 0), Var("i", 0))>>
              [] b[2] # 0 /\ b[1] = "cond" -> HeaderInstrs(p.kinds[b[2]], b[2])
              [] b[2] # 0 /\ b[1] = "body" ->
                   IF p.kinds[b[2]] = "custom"
                   THEN p.body \o <<Store(Var("r", b[2]), Counter("custom", b[2]))>>
                   ELSE BodyInstrs(p.kinds[b[2]], b[2])
              [] b[2] # 0 /\ b[1] = "inc" -> LatchInstrs(p.kinds[b[2]], b[2])
              [] OTHER -> StartsIn(p, b)]

\* The Function: its blocks, each block's terminator successors and
\* instructions.
ProcFunc(p) ==
    [blocks |-> ProcBlocks(p), succ |-> ProcSucc(p), instrs |-> ProcInstrs(p)]

SiblingBlocks(k) == << <<"cond", k>>, <<"body", k>>, <<"inc", k>> >>

\* The blocks between the siblings, which belong to the enclosing loop only.
BetweenBlocks(p, k) ==
    (IF p.kinds[k] = "gap" THEN << <<"gap", k>>, <<"pre", k>> >> ELSE <<>>)

OuterBlocks(p) ==
    << <<"cond", 0>>, <<"body", 0>> >>
    \o Flatten([k \in 1..NSib(p) |->
                  BetweenBlocks(p, k) \o SiblingBlocks(k) \o << <<"end", k>> >>])
    \o << <<"inc", 0>> >>

\* A std::vector<Loop *>: the slots in memory and how many of them are the
\* vector's elements (erase leaves the old value in the slot past the end).
Vec(s) == [elems |-> s, size |-> Len(s)]

(***************************************************************************)
(* LoopInfo as LoopAnalysis computes it: the top-level loops in reverse    *)
(* program order, the sub-loops of a loop in program order, each loop's    *)
(* blocks with the header first, and the innermost loop of each block.     *)
(***************************************************************************)
ProcLoopInfo(p) ==
    [top |-> IF p.nested THEN Vec(<<Outer>>)
             ELSE Vec(Reverse([k \in 1..NSib(p) |-> k])),
     sub |-> [l \in Loops |->
                IF l = Outer /\ p.nested THEN Vec([k \in 1..NSib(p) |-> k]) ELSE Vec(<<>>)],
     blocks |-> [l \in Loops |->
                   IF l = Outer THEN (IF p.nested THEN OuterBlocks(p) ELSE <<>>)
                   ELSE IF l <= NSib(p) THEN SiblingBlocks(l) ELSE <<>>],
     parent |-> [l \in Loops |-> IF l # Outer /\ l <= NSib(p) /\ p.nested THEN Outer ELSE NoLoop],
     bbmap |-> [b \in AllBlocks |->
                  IF b \notin ProcBlocks(p) THEN NoLoop
                  ELSE IF b[2] # 0 /\ b[1] \in {"cond", "body", "inc"} THEN b[2]
                  ELSE IF p.nested /\ Contains(OuterBlocks(p), b) THEN Outer
                  ELSE NoLoop],
     alive |-> (IF p.nested THEN {Outer} ELSE {}) \cup (1..NSib(p))]

Procedures ==
    {p \in [nested : BOOLEAN, kinds : UNION {[1..n -> LoopKinds] : n \in 1..MaxSiblings}] :
        p.nested \/ NSib(p) = 2}

\* The longest custom body.
MaxBody == 3

\* The loads, stores and address computations of a custom body: on the
\* locations a and b directly, and through the pointer p an address
\* computation yields.
BodyAlphabet ==
    {Load(Var("ld.a", 0), Var("a", 0)), Store(Var("r", 0), Var("a", 0)),
     Load(Var("ld.p", 0), Var("p", 0)), Store(Var("r", 0), Var("p", 0)),
     GEP(Var("p", 0), Var("a", 0)), GEP(Var("p", 0), Var("b", 0))}

Bodies == UNION {[1..n -> BodyAlphabet] : n \in 0..MaxBody}

\* The scenarios: pairs of sibling loops of the shapes above, and single
\* loops with every body up to MaxBody instructions.
Scenarios ==
    [nested : BOOLEAN, kinds : [1..2 -> ShapeKinds \ {"custom"}], body : {<<>>}]
    \cup [nested : {TRUE}, kinds : {<<"custom">>}, body : Bodies]


(***************************************************************************)
(* The queries of llvm::Loop the pass makes, on the function f and the     *)
(* loop info la as they are when the query is made.                        *)
(***************************************************************************)
Preds(f, b) == {q \in f.blocks : Contains(f.succ[q], b)}

LoopBlockSet(la, l) == SeqToSet(la.blocks[l])

TheOne(S) == IF Cardinality(S) = 1 THEN CHOOSE b \in S : TRUE ELSE NoBlock

getHeader(la, l) == IF la.blocks[l] = <<>> THEN NoBlock ELSE la.blocks[l][1]

\* The only predecessor of the header outside the loop, when the header is
\* its only successor.
getLoopPreheader(f, la, l) ==
    LET out == TheOne(Preds(f, getHeader(la, l)) \ LoopBlockSet(la, l))
    IN IF out # NoBlock /\ Len(f.succ[out]) = 1 THEN out ELSE NoBlock

getUniqueExitBlock(f, la, l) ==
    TheOne({b \in f.blocks : b \notin LoopBlockSet(la, l)
               /\ \E q \in LoopBlockSet(la, l) : Contains(f.succ[q], b)})

getExitingBlock(f, la, l) ==
    TheOne({q \in LoopBlockSet(la, l) :
               \E i \in 1..Len(f.succ[q]) : f.succ[q][i] \notin LoopBlockSet(la, l)})

getLoopLatch(f, la, l) ==
    TheOne(Preds(f, getHeader(la, l)) \cap LoopBlockSet(la, l))

\* No loop of the family carries parallel-access metadata.
isAnnotatedParallel(la, l) == FALSE

(***************************************************************************)
(* FusionCandidate and LoopInduction.  A default-constructed record holds  *)
(* no block, no value and empty arrays.                                    *)
(***************************************************************************)
NoInduction ==
    [induction_variable |-> Null,
     start_const |-> Null, start_variable |-> Null,
     stop_const |-> Null, stop_variable |-> Null,
     advance_const |-> Null, advance_variable |-> Null,
     advance_op |-> NoOpc]

NoCandidate ==
    [loop |-> NoLoop, preheader |-> NoBlock, header |-> NoBlock, pre_exit |-> NoBlock,
     exit |-> NoBlock, latch |-> NoBlock, induction |-> NoInduction,
     writes |-> <<>>, reads |-> <<>>]

is_loop_body(candidate, BB) ==
    BB # candidate.header /\ BB # candidate.latch /\ BB # candidate.pre_exit

\* The instructions of the loop's blocks in getBlocks() order, each with its
\* block.
LoopInstrs(f, la, l) ==
    Flatten([i \in 1..Len(la.blocks[l]) |->
               [j \in 1..Len(f.instrs[la.blocks[l][i]]) |->
                  [bb |-> la.blocks[l][i], ins |-> f.instrs[la.blocks[l][i]][j]]]])

\* Faulty variant: the first load of the header is recorded as a read.
MemopsStep_HeaderLoadRead(candidate, m, bb, ins) ==
    IF bb = candidate.header
    THEN IF ins.op = "load" THEN [m EXCEPT !.reads = Append(@, ins.a0)] ELSE m
    ELSE IF is_loop_body(candidate, bb)
    THEN CASE ins.op = "load" ->
                IF m.seen_gep
                THEN [m EXCEPT !.reads = Append(@, m.gep_operand), !.seen_gep = FALSE]
                ELSE [m EXCEPT !.reads = Append(@, ins.a0)]
           [] ins.op = "store" ->
                IF m.seen_gep
                THEN [m EXCEPT !.writes = Append(@, m.gep_operand), !.seen_gep = FALSE]
                ELSE [m EXCEPT !.writes = Append(@, ins.a1)]
           [] ins.op = "gep" ->
                [m EXCEPT !.gep_operand = ins.a0, !.seen_gep = TRUE]
           [] OTHER -> m
    ELSE m

\* Faulty variant: a load leaves the pending address in its slot.
MemopsStep_SlotKept(candidate, m, bb, ins) ==
    IF bb = candidate.header
    THEN IF ins.op = "load"
         THEN IF ~m.header_seen_load
              THEN [m EXCEPT !.writes = Append(@, ins.a0), !.header_seen_load = TRUE]
              ELSE [m EXCEPT !.reads = Append(@, ins.a0)]
         ELSE m
    ELSE IF is_loop_body(candidate, bb)
    THEN CASE ins.op = "load" ->
                IF m.seen_gep
                THEN [m EXCEPT !.reads = Append(@, m.gep_operand)]
                ELSE [m EXCEPT !.reads = Append(@, ins.a0)]
           [] ins.op = "store" ->
                IF m.seen_gep
                THEN [m EXCEPT !.writes = Append(@, m.gep_operand), !.seen_gep = FALSE]
                ELSE [m EXCEPT !.writes = Append(@, ins.a1)]
           [] ins.op = "gep" ->
                [m EXCEPT !.gep_operand = ins.a0, !.seen_gep = TRUE]
           [] OTHER -> m
    ELSE m

\* One instruction of get_loop_memops: m holds writes, reads, gep_operand,
\* seen_gep and header_seen_load.
MemopsStep(candidate, m, bb, ins) ==
    IF bb = candidate.header
    THEN IF ins.op = "load"
         THEN IF ~m.header_seen_load
              THEN [m EXCEPT !.writes = Append(@, ins.a0), !.header_seen_load = TRUE]
              ELSE [m EXCEPT !.reads = Append(@, ins.a0)]
         ELSE m
    ELSE IF is_loop_body(candidate, bb)
    THEN CASE ins.op = "load" ->
                IF m.seen_gep
                THEN [m EXCEPT !.reads = Append(@, m.gep_operand), !.seen_gep = FALSE]
                ELSE [m EXCEPT !.reads = Append(@, ins.a0)]
           [] ins.op = "store" ->
                IF m.seen_gep
                THEN [m EXCEPT !.writes = Append(@, m.gep_operand), !.seen_gep = FALSE]
                ELSE [m EXCEPT !.writes = Append(@, ins.a1)]
           [] ins.op = "gep" ->
                [m EXCEPT !.gep_operand = ins.a0, !.seen_gep = TRUE]
           [] OTHER -> m
    ELSE m

RECURSIVE MemopsScan(_, _, _)
MemopsScan(candidate, m, is) ==
    IF is = <<>> THEN m
    ELSE MemopsScan(candidate, MemopsStep(candidate, m, Head(is).bb, Head(is).ins), Tail(is))

\* get_loop_memops: the candidate with its writes and reads filled in.
get_loop_memops(f, la, candidate) ==
    LET m == MemopsScan(candidate,
                        [writes |-> candidate.writes, reads |-> candidate.reads,
                         gep_operand |-> Null, seen_gep |-> FALSE,
                         header_seen_load |-> FALSE],
                        LoopInstrs(f, la, candidate.loop))
    IN [candidate EXCEPT !.writes = m.writes, !.reads = m.reads]

\* variables[v] on the by-value copy of the map: a missing key reads as
\* nullptr.
Lookup(variables, v) == IF v \in DOMAIN variables THEN variables[v] ELSE Null

\* The header scan of get_loop_induction.
RECURSIVE HeaderScan(_, _, _)
HeaderScan(variables, h, is) ==
    IF is = <<>> THEN h
    ELSE LET ins == Head(is)
             h2 == IF ins.op = "icmp"
                   THEN IF IsConstant(ins.a1)
                        THEN [h EXCEPT !.stop_const = ins.a1]
                        ELSE [h EXCEPT !.stop_variable = Lookup(variables, ins.a1)]
                   ELSE IF h.induction_variable = Null /\ ins.op = "load"
                        THEN [h EXCEPT !.induction_variable = ins.a0]
                        ELSE h
         IN HeaderScan(variables, h2, Tail(is))

\* The preheader scan: every store sets the start.
RECURSIVE StartScan(_, _, _)
StartScan(variables, h, is) ==
    IF is = <<>> THEN h
    ELSE LET ins == Head(is)
             h2 == IF ins.op # "store" THEN h
                   ELSE IF IsConstantInt(ins.a0)
                        THEN [h EXCEPT !.start_const = ins.a0]
                        ELSE [h EXCEPT !.start_variable = Lookup(variables, ins.a0)]
         IN StartScan(variables, h2, Tail(is))

\* The latch scan: every binary operator sets the advance and its opcode.
RECURSIVE AdvanceScan(_, _, _)
AdvanceScan(variables, h, is) ==
    IF is = <<>> THEN h
    ELSE LET ins == Head(is)
             h2 == IF ins.op # "binop" THEN h
                   ELSE IF IsConstantInt(ins.a1)
                        THEN [h EXCEPT !.advance_op = ins.opc, !.advance_const = ins.a1]
                        ELSE [h EXCEPT !.advance_op = ins.opc,
                                       !.advance_variable = Lookup(variables, ins.a1)]
         IN AdvanceScan(variables, h2, Tail(is))

\* Faulty variant: the store is not looked for.
InductionVariableIsStored_Always(f, la, candidate, iv) == TRUE

InductionVariableIsStored(f, la, candidate, iv) ==
    LET is == LoopInstrs(f, la, candidate.loop)
    IN \E i \in 1..Len(is) :
          is_loop_body(candidate, is[i].bb) /\ is[i].ins.op = "store" /\ is[i].ins.a1 = iv

\* get_loop_induction: ok, the candidate (its induction set on success) and
\* the diagnostic lines written.
get_loop_induction(f, la, candidate, variables) ==
    LET h == HeaderScan(variables, NoInduction, f.instrs[candidate.header])
        s == StartScan(variables, h, f.instrs[candidate.preheader])
        a == AdvanceScan(variables, s, f.instrs[candidate.latch])
        fail(line) == [ok |-> FALSE, cand |-> candidate, diag |-> <<line>>]
    IN IF h.induction_variable = Null
       THEN fail("Loop does not have an induction variable.")
       ELSE IF h.stop_const = Null /\ h.stop_variable = Null
       THEN fail("Loop stop is not a constant or a variable.")
       ELSE IF ~InductionVariableIsStored(f, la, candidate, h.induction_variable)
       THEN fail("Loop induction variable is not used.")
       ELSE IF s.start_const = Null /\ s.start_variable = Null
       THEN fail("Loop start is not a constant or a variable.")
       ELSE IF a.advance_const = Null /\ a.advance_variable = Null
       THEN fail("Loop advance is not a constant or a variable.")
       ELSE [ok |-> TRUE, cand |-> [candidate EXCEPT !.induction = a], diag |-> <<>>]

\* The first instruction of the loop that fails the scan of
\* create_fusion_candidate, as its diagnostic line; <<>> when none does.
RECURSIVE UnsafeInstr(_)
UnsafeInstr(is) ==
    IF is = <<>> THEN <<>>
    ELSE IF Head(is).ins.op = "call"
    THEN <<"Loop contains instruction that may throw exception.">>
    ELSE IF Head(is).ins.op \in {"store", "load"} /\ Head(is).ins.vol
    THEN <<"Loop contains volatile memory access.">>
    ELSE UnsafeInstr(Tail(is))

create_fusion_candidate(f, la, loop, variables) ==
    LET c1 == [NoCandidate EXCEPT !.preheader = getLoopPreheader(f, la, loop),
                                  !.exit = getUniqueExitBlock(f, la, loop)]
        c2 == [c1 EXCEPT !.header = getHeader(la, loop),
                         !.latch = getLoopLatch(f, la, loop),
                         !.pre_exit = getExitingBlock(f, la, loop)]
        c3 == get_loop_memops(f, la, [c2 EXCEPT !.loop = loop])
        unsafe == UnsafeInstr(LoopInstrs(f, la, loop))
        fail(c, line) == [ok |-> FALSE, cand |-> c, diag |-> <<line>>]
    IN IF unsafe # <<>>
       THEN [ok |-> FALSE, cand |-> NoCandidate, diag |-> unsafe]
       ELSE IF c1.preheader = NoBlock \/ c1.exit = NoBlock
       THEN fail(c1, "Loop does not have single entry or exit point.")
       ELSE IF isAnnotatedParallel(la, loop)
       THEN fail(c1, "Loop is annotated parallel.")
       ELSE IF c2.header = NoBlock \/ c2.latch = NoBlock \/ c2.pre_exit = NoBlock
       THEN fail(c2, "Necessary loop information is not available(preheader, header, latch, pre exit, exit block).")
       ELSE get_loop_induction(f, la, c3, variables)

(***************************************************************************)
(* The legality checker.                                                   *)
(***************************************************************************)
adjacent(c1, c2) == c1.exit = c2.preheader

\* ConstantInt::getValue() and ConstantFP::getValueAPF() are the bits; two
\* constants of one type are of one class unless one is neither an integer
\* nor a floating-point constant.
\* Faulty variant: the integer values are compared the wrong way round.
are_constants_equal_Inverted(LHS, RHS) ==
    IF LHS = Null /\ RHS = Null THEN TRUE
    ELSE IF LHS = Null \/ RHS = Null THEN FALSE
    ELSE IF LHS.ty # RHS.ty THEN FALSE
    ELSE IF IsConstantInt(LHS) THEN (IsConstantInt(RHS) /\ LHS.bits # RHS.bits)
    ELSE IF IsConstantFP(LHS) THEN (IsConstantFP(RHS) /\ LHS.bits = RHS.bits)
    ELSE FALSE

are_constants_equal(LHS, RHS) ==
    IF LHS = Null /\ RHS = Null THEN TRUE
    ELSE IF LHS = Null \/ RHS = Null THEN FALSE
    ELSE IF LHS.ty # RHS.ty THEN FALSE
    ELSE IF IsConstantInt(LHS) THEN (IsConstantInt(RHS) /\ LHS.bits = RHS.bits)
    ELSE IF IsConstantFP(LHS) THEN (IsConstantFP(RHS) /\ LHS.bits = RHS.bits)
    ELSE FALSE

\* One field of same_loop_evolution: <<>> when the pair passes, else the line.
SameField(const1, var1, const2, var2, unequal, kinds) ==
    IF const1 # Null /\ const2 # Null
    THEN IF ~are_constants_equal(const1, const2) THEN <<unequal>> ELSE <<>>
    ELSE IF var1 # Null /\ var2 # Null
    THEN IF var1 # var2 THEN <<unequal>> ELSE <<>>
    ELSE <<kinds>>

\* The diagnostic line of the first check of same_loop_evolution that
\* fails; <<>> when it returns true.
EvolutionDiag(c1, c2) ==
    LET i1 == c1.induction
        i2 == c2.induction
        stop == SameField(i1.stop_const, i1.stop_variable, i2.stop_const, i2.stop_variable,
                          "Loop stops are not equal",
                          "Loop stops are not the same kinds of values")
        advance == SameField(i1.advance_const, i1.advance_variable,
                             i2.advance_const, i2.advance_variable,
                             "Loop advances are not equal",
                             "Loop advances are not the same kinds of values")
        start == SameField(i1.start_const, i1.start_variable,
                           i2.start_const, i2.start_variable,
                           "Loop advances are not equal",
                           "Loop starts are not the same kinds of values")
    IN IF stop # <<>> THEN stop
       ELSE IF advance # <<>> THEN advance
       ELSE IF i1.advance_op # i2.advance_op
       THEN <<"Loop advance operations are not the same">>
       ELSE start

same_loop_evolution(c1, c2) == EvolutionDiag(c1, c2) = <<>>

\* Faulty variant: the writes of c2 are not compared with the reads of c1.
dependent_OneDirection(c1, c2) ==
    \E i \in 1..Len(c1.writes) :
        \/ \E j \in 1..Len(c2.reads) : c1.writes[i] = c2.reads[j]
        \/ \E j \in 1..Len(c2.writes) : c1.writes[i] = c2.writes[j]

dependent(c1, c2) ==
    \/ \E i \in 1..Len(c1.writes) :
          \/ \E j \in 1..Len(c2.reads) : c1.writes[i] = c2.reads[j]
          \/ \E j \in 1..Len(c2.writes) : c1.writes[i] = c2.writes[j]
    \/ \E i \in 1..Len(c2.writes) :
          \E j \in 1..Len(c1.reads) : c2.writes[i] = c1.reads[j]

\* Faulty variant: adjacency is not asked for.
can_be_fused_NoAdjacency(c1, c2) ==
    same_loop_evolution(c1, c2) /\ ~dependent(c1, c2)

can_be_fused(c1, c2) ==
    same_loop_evolution(c1, c2) /\ ~dependent(c1, c2) /\ adjacent(c1, c2)


(***************************************************************************)
(* Dominance, post-dominance and the LLVM utilities the transformer calls. *)
(***************************************************************************)
\* The blocks reachable from the blocks of S without entering a block of
\* avoid; done are the blocks of S whose successors were followed.
RECURSIVE ReachStep(_, _, _, _)
ReachStep(f, S, done, avoid) ==
    IF S = done THEN S
    ELSE LET q == CHOOSE b \in S \ done : TRUE
         IN ReachStep(f, S \cup ((SeqToSet(f.succ[q]) \cap f.blocks) \ avoid),
                      done \cup {q}, avoid)

ReachFrom(f, S, avoid) == ReachStep(f, S, {}, avoid)

Reachable(f) == ReachFrom(f, {Entry}, {})

\* DominatorTree::dominates on blocks, after recalculate.
Dominates(f, a, b) ==
    a = b \/ b \notin ReachFrom(f, {Entry} \ {a}, {a})

\* PostDominatorTree::dominates on blocks, after recalculate: every path
\* from b to a block without successors passes a.
PostDominates(f, a, b) ==
    a = b \/ \A e \in ReachFrom(f, {b}, {a}) : f.succ[e] # <<>>

isControlFlowEquivalent(f, b0, b1) ==
    \/ b0 = b1
    \/ Dominates(f, b0, b1) /\ PostDominates(f, b1, b0)
    \/ PostDominates(f, b0, b1) /\ Dominates(f, b1, b0)

Address(ins) ==
    IF ins.op = "load" THEN ins.a0 ELSE IF ins.op = "store" THEN ins.a1 ELSE Null

\* DependenceInfo::depends finding a flow, anti or output dependence: two
\* accesses of one location, one of them a store.
Depends(i, j) ==
    /\ Address(i) # Null
    /\ Address(i) = Address(j)
    /\ (i.op = "store" \/ j.op = "store")

\* collectInstructionsInBetween: the blocks walked from the successors of
\* block a until block b is met.
BlocksBetween(f, a, b) ==
    ReachFrom(f, (SeqToSet(f.succ[a]) \cap f.blocks) \ {b}, {b})

\* isSafeToMoveBefore for an instruction ins that is moved between the
\* blocks first and last, first being the one executed first; rest are
\* the instructions of ins's own block that lie between the two places.
isSafeToMove(f, ins, rest, first, last) ==
    LET all == SeqToSet(rest)
               \cup UNION {SeqToSet(f.instrs[m]) : m \in BlocksBetween(f, first, last)}
    IN /\ isControlFlowEquivalent(f, first, last)
       /\ ins.op # "call"
       /\ \A j \in all :
             /\ ~Depends(ins, j)
             /\ j.op # "call"
             /\ j.res = Null \/ (j.res # ins.a0 /\ j.res # ins.a1)
             /\ ins.res = Null \/ (ins.res # j.a0 /\ ins.res # j.a1)

\* moveInstructionsToTheEnd(FromBB, ToBB): the instructions of FromBB, from
\* its first, are moved before ToBB's terminator while the first one is
\* safe to move.
RECURSIVE moveInstructionsToTheEnd(_, _, _)
moveInstructionsToTheEnd(f, FromBB, ToBB) ==
    IF f.instrs[FromBB] = <<>> THEN f
    ELSE IF ~isSafeToMove(f, Head(f.instrs[FromBB]), <<>>, ToBB, FromBB) THEN f
    ELSE moveInstructionsToTheEnd(
             [f EXCEPT !.instrs[ToBB] = Append(@, Head(f.instrs[FromBB])),
                       !.instrs[FromBB] = Tail(@)],
             FromBB, ToBB)

\* Faulty variant: the instructions go from ToBB to the front of FromBB.
RECURSIVE MoveBack(_, _, _, _)
MoveBack(f, FromBB, ToBB, n) ==
    IF n = 0 THEN f
    ELSE LET ins == f.instrs[FromBB][n]
             rest == SubSeq(f.instrs[FromBB], n + 1, Len(f.instrs[FromBB]))
             kept == SubSeq(f.instrs[FromBB], 1, n - 1) \o rest
         IN IF isSafeToMove(f, ins, rest, FromBB, ToBB)
            THEN MoveBack([f EXCEPT !.instrs[ToBB] = <<ins>> \o @, !.instrs[FromBB] = kept],
                          FromBB, ToBB, n - 1)
            ELSE MoveBack(f, FromBB, ToBB, n - 1)

moveInstructionsToTheBeginning_Reversed(f, FromBB, ToBB, n) ==
    MoveBack(f, ToBB, FromBB, Len(f.instrs[ToBB]))

\* moveInstructionsToTheBeginning(FromBB, ToBB): the instructions of FromBB,
\* from its last, are moved to the front of ToBB, each when safe to move;
\* n is the number of instructions of FromBB still to look at.
RECURSIVE moveInstructionsToTheBeginning(_, _, _, _)
moveInstructionsToTheBeginning(f, FromBB, ToBB, n) ==
    IF n = 0 THEN f
    ELSE LET ins == f.instrs[FromBB][n]
             rest == SubSeq(f.instrs[FromBB], n + 1, Len(f.instrs[FromBB]))
             kept == SubSeq(f.instrs[FromBB], 1, n - 1) \o rest
         IN IF isSafeToMove(f, ins, rest, FromBB, ToBB)
            THEN moveInstructionsToTheBeginning(
                     [f EXCEPT !.instrs[ToBB] = <<ins>> \o @, !.instrs[FromBB] = kept],
                     FromBB, ToBB, n - 1)
            ELSE moveInstructionsToTheBeginning(f, FromBB, ToBB, n - 1)

\* Terminator::replaceUsesOfWith(old, new) on block b's terminator.
replaceUsesOfWith(f, b, old, new) == [f EXCEPT !.succ[b] = Replace(@, old, new)]

\* The terminator is erased and an UnreachableInst put in its place.
MakeUnreachable(f, b) == [f EXCEPT !.succ[b] = <<>>]

getUniqueSuccessor(f, b) == TheOne(SeqToSet(f.succ[b]))

removeBlockFromLoop(la, l, b) == [la EXCEPT !.blocks[l] = RemoveAll(@, b)]

addBlockEntry(la, l, b) == [la EXCEPT !.blocks[l] = Append(@, b)]

getLoopFor(la, b) == la.bbmap[b]

changeLoopFor(la, b, l) == [la EXCEPT !.bbmap[b] = l]

\* LoopInfo::removeBlock: the block leaves its loop and every enclosing
\* loop, and the block map.
RECURSIVE RemoveFromLoops(_, _, _)
RemoveFromLoops(la, l, b) ==
    IF l = NoLoop THEN la
    ELSE RemoveFromLoops(removeBlockFromLoop(la, l, b), la.parent[l], b)

LoopInfo_removeBlock(la, b) ==
    changeLoopFor(RemoveFromLoops(la, la.bbmap[b], b), b, NoLoop)

\* std::vector::erase of the element e: the later elements move down one
\* slot and the slot past the new end keeps its old value.
VecErase(v, e) ==
    IF ~\E i \in 1..v.size : v.elems[i] = e THEN v
    ELSE LET pos == CHOOSE i \in 1..v.size : v.elems[i] = e
         IN [elems |-> [i \in 1..Len(v.elems) |->
                          IF i >= pos /\ i < v.size THEN v.elems[i + 1] ELSE v.elems[i]],
             size |-> v.size - 1]

VecPush(v, e) ==
    [elems |-> SubSeq(v.elems, 1, v.size) \o <<e>>, size |-> v.size + 1]

\* LoopInfo::erase of a loop that owns no block any more (the transformer
\* has moved them all): the loop leaves its parent's sub-loops or the
\* top-level loops, its own sub-loops become top-level loops, and the Loop
\* object is destroyed.
RECURSIVE MoveSubLoopsToTop(_, _)
MoveSubLoopsToTop(la, l) ==
    IF la.sub[l].size = 0 THEN la
    ELSE LET child == la.sub[l].elems[la.sub[l].size]
         IN MoveSubLoopsToTop(
                [la EXCEPT !.sub[l] = VecErase(@, child),
                           !.parent[child] = NoLoop,
                           !.top = VecPush(@, child)], l)

LoopInfo_erase(la, l) ==
    LET unlinked == IF la.parent[l] = NoLoop
                    THEN [la EXCEPT !.top = VecErase(@, l)]
                    ELSE [la EXCEPT !.sub[la.parent[l]] = VecErase(@, l), !.parent[l] = NoLoop]
    IN [MoveSubLoopsToTop(unlinked, l) EXCEPT !.alive = @ \ {l}]

\* MergeBlockIntoPredecessor(BB, ..., LI, ...): when BB has one predecessor
\* whose only successor is BB, BB's instructions and terminator move to the
\* end of the predecessor, BB leaves the loop info and the function.
\* Faulty variant: the block is never merged.
MergeBlockIntoPredecessor_Never(f, la, BB) == [func |-> f, la |-> la]

MergeBlockIntoPredecessor(f, la, BB) ==
    LET PredBB == TheOne(Preds(f, BB))
    IN IF BB = NoBlock \/ PredBB = NoBlock \/ PredBB = BB
          \/ getUniqueSuccessor(f, PredBB) # BB
       THEN [func |-> f, la |-> la]
       ELSE [func |-> [f EXCEPT !.instrs[PredBB] = @ \o f.instrs[BB],
                                !.succ[PredBB] = f.succ[BB],
                                !.instrs[BB] = <<>>,
                                !.succ[BB] = <<>>,
                                !.blocks = @ \ {BB}],
             la |-> LoopInfo_removeBlock(la, BB)]

EliminateUnreachableBlocks(f) ==
    LET live == Reachable(f)
    IN [blocks |-> live,
        succ |-> [b \in AllBlocks |-> IF b \in live THEN f.succ[b] ELSE <<>>],
        instrs |-> [b \in AllBlocks |-> IF b \in live THEN f.instrs[b] ELSE <<>>]]

(***************************************************************************)
(* The dominator and post-dominator trees.  Both are functions of the CFG  *)
(* they were last calculated on, so the pair is kept as that CFG: a tree   *)
(* is stale when the function's CFG is no longer the one it holds.         *)
(***************************************************************************)
Trees(f) == [blocks |-> f.blocks, succ |-> f.succ]

NoTrees == [blocks |-> {}, succ |-> <<>>]

\* What fuse_with_first does to the CFG and to the trees, in source order:
\* a query of the trees (isSafeToMoveBefore), a structural edit with the
\* function as the edit leaves it, or DT->recalculate and PDT->recalculate.
\* f0 is the function after the first move, f5 after the second, merged
\* after the merge and final when fuse_with_first returns.
FusionEvents(f0, c1, c2, f5, merged, final) ==
    LET f1 == replaceUsesOfWith(f0, c1.pre_exit, c2.preheader, c2.exit)
        f2 == MakeUnreachable(f1, c2.preheader)
        f3 == replaceUsesOfWith(f2, c1.latch, c1.header, c2.header)
        f4 == replaceUsesOfWith(f3, c2.latch, c2.header, c1.header)
        ev(op, g) == [op |-> op, func |-> g]
    IN <<ev("query", f0),
         ev("edit", f1), ev("edit", f2), ev("edit", f3), ev("edit", f4),
         ev("recalculate", f4),
         ev("recalculate", f4),
         ev("query", f5),
         ev("edit", merged),
         ev("recalculate", merged),
         ev("edit", final)>>

\* The trees on entry, the CFG as it is, and no stale edit or query yet.
FreshReplay(trees, f) ==
    [trees |-> trees, cfg |-> Trees(f), stale_edits |-> 0, stale_queries |-> 0]

\* The events applied in order: an edit or a query made while the trees
\* are not those of the CFG is counted, a recalculation makes them so.
RECURSIVE ReplayTrees(_, _)
ReplayTrees(events, an) ==
    IF events = <<>> THEN an
    ELSE LET e == Head(events)
             stale == IF an.trees = an.cfg THEN 0 ELSE 1
         IN ReplayTrees(Tail(events),
                CASE e.op = "query" -> [an EXCEPT !.stale_queries = @ + stale]
                  [] e.op = "edit" ->
                       [an EXCEPT !.stale_edits = @ + stale, !.cfg = Trees(e.func)]
                  [] OTHER -> [an EXCEPT !.trees = an.cfg])


(***************************************************************************)
(* The transformer.                                                        *)
(***************************************************************************)
\* The loop of fuse_with_first over c2's blocks: each block is added to
\* c1's loop and removed from c2's, and handed to c1's loop in the block
\* map when the map still gives it to c2's loop.
RECURSIVE MoveBlocks(_, _, _, _)
MoveBlocks(la, Blocks, l1, l2) ==
    IF Blocks = <<>> THEN la
    ELSE LET BB == Head(Blocks)
             moved == removeBlockFromLoop(addBlockEntry(la, l1, BB), l2, BB)
         IN MoveBlocks(IF getLoopFor(moved, BB) # l2 THEN moved
                       ELSE changeLoopFor(moved, BB, l1),
                       Tail(Blocks), l1, l2)

\* Faulty variant: the back edge of c1's latch is left on c1's header.
RewireBranches_LatchKept(f, c1, c2) ==
    LET f1 == replaceUsesOfWith(f, c1.pre_exit, c2.preheader, c2.exit)
        f2 == MakeUnreachable(f1, c2.preheader)
    IN replaceUsesOfWith(f2, c2.latch, c2.header, c1.header)

\* The retargeting of c1's exiting branch and of the two back edges, and
\* the unreachable terminator of c2's preheader.
RewireBranches(f, c1, c2) ==
    LET f1 == replaceUsesOfWith(f, c1.pre_exit, c2.preheader, c2.exit)
        f2 == MakeUnreachable(f1, c2.preheader)
        f3 == replaceUsesOfWith(f2, c1.latch, c1.header, c2.header)
    IN replaceUsesOfWith(f3, c2.latch, c2.header, c1.header)

fuse_with_first(f, la, c1, c2) ==
    LET f0 == moveInstructionsToTheEnd(f, c2.preheader, c1.preheader)
        f4 == RewireBranches(f0, c1, c2)
        la1 == LoopInfo_removeBlock(la, c2.preheader)
        f5 == moveInstructionsToTheBeginning(f4, c1.latch, c2.latch, Len(f4.instrs[c1.latch]))
        mg == MergeBlockIntoPredecessor(f5, la1, getUniqueSuccessor(f5, c1.latch))
        la2 == MoveBlocks(mg.la, mg.la.blocks[c2.loop], c1.loop, c2.loop)
        final == EliminateUnreachableBlocks(mg.func)
    IN [func |-> final,
        la |-> LoopInfo_erase(la2, c2.loop),
        events |-> FusionEvents(f0, c1, c2, f5, mg.func, final),
        \* getUniqueSuccessor() gave nullptr, which MergeBlockIntoPredecessor
        \* dereferences
        null_merge |-> getUniqueSuccessor(f5, c1.latch) = NoBlock]


(***************************************************************************)
(* The pass: run, map_variables and fuse_same_depth_loops_recursive.       *)
(*                                                                         *)
(* stack holds one frame per active call of the driver: the vector it      *)
(* iterates (loops: NoLoop for the top-level loops, else the loop whose    *)
(* sub-loops they are), the iterator it and the end iterator taken when    *)
(* the loop started, whether the sub-loops of *it have been handled, the   *)
(* collector, and whether an erase has invalidated the iterator.           *)
(***************************************************************************)
VARIABLES proc, pc, func, LA, DT, variables, stack, out, last

vars == <<proc, pc, func, LA, DT, variables, stack, out, last>>

\* map_variables: every load of the function maps to its address operand.
map_variables(f) ==
    LET loads == {i \in UNION {SeqToSet(f.instrs[b]) : b \in f.blocks} : i.op = "load"}
    IN [v \in {i.res : i \in loads} |-> (CHOOSE i \in loads : i.res = v).a0]

VecOf(la, loops) == IF loops = NoLoop THEN la.top ELSE la.sub[loops]

NewFrame(la, loops) ==
    [loops |-> loops, it |-> 1, end |-> VecOf(la, loops).size + 1, subs_done |-> FALSE,
     collector_has_data |-> FALSE, collector |-> NoCandidate, erased |-> FALSE]

Top == stack[Len(stack)]

SetTop(fr) == [stack EXCEPT ![Len(stack)] = fr]

\* The Loop * the iterator of the top frame points at.
CurrentLoop == VecOf(LA, Top.loops).elems[Top.it]

\* What the last step of the driver did, for the properties below.
NoStep ==
    [kind |-> "none", loop |-> NoLoop, built |-> FALSE, had_collector |-> FALSE,
     fusable |-> FALSE, fused |-> FALSE, before |-> NoCandidate, current |-> NoCandidate,
     lines |-> 0, blocks1 |-> <<>>, blocks2 |-> <<>>, header2 |-> <<>>, latch2 |-> <<>>,
     stale_edits |-> 0, stale_queries |-> 0]

Init ==
    /\ proc \in Procedures
    /\ pc = "run"
    /\ func = ProcFunc(proc)
    /\ LA = ProcLoopInfo(proc)
    /\ DT = NoTrees
    /\ variables = <<>>
    /\ stack = <<>>
    /\ out = <<>>
    /\ last = NoStep

\* run: the analyses are taken from the analysis manager, the variable map
\* is built and the driver is called on the top-level loops.
Run ==
    /\ pc = "run"
    /\ pc' = "loop"
    /\ DT' = Trees(func)
    /\ variables' = map_variables(func)
    /\ stack' = <<NewFrame(LA, NoLoop)>>
    /\ last' = [NoStep EXCEPT !.kind = "run"]
    /\ UNCHANGED <<proc, func, LA, out>>

\* The recursive call on the sub-loops of the current loop.
Recurse ==
    /\ pc = "loop"
    /\ Top.it < Top.end
    /\ ~Top.subs_done
    /\ IF CurrentLoop \in LA.alive
       THEN /\ stack' = Append(SetTop([Top EXCEPT !.subs_done = TRUE]),
                               NewFrame(LA, CurrentLoop))
            /\ pc' = pc
       ELSE \* the slot read holds a Loop that was destroyed
            /\ pc' = "crash"
            /\ stack' = stack
    /\ last' = [NoStep EXCEPT !.kind = "recurse", !.loop = CurrentLoop]
    /\ UNCHANGED <<proc, func, LA, DT, variables, out>>

\* Faulty variant: the checker is not asked.
ShouldFuse_Unchecked(fr, current) == fr.collector_has_data

\* Whether the driver calls fuse_with_first on the candidate just built.
ShouldFuse(fr, current) ==
    fr.collector_has_data /\ can_be_fused(fr.collector, current)

\* Faulty variant: the candidate becomes the collector after a fusion too.
NextCollector_AlwaysCurrent(fr, current, fuse) == current

\* Faulty variant: an existing collector is kept when the pair is rejected.
NextCollector_KeepExisting(fr, current, fuse) ==
    IF fr.collector_has_data THEN fr.collector ELSE current

\* Faulty variant: a fusion gives the collector the absorbed loop's exit.
NextCollector_ExitRefreshed(fr, current, fuse) ==
    IF fuse THEN [fr.collector EXCEPT !.exit = current.exit] ELSE current

\* The collector after a candidate was built for the current loop.
NextCollector(fr, current, fuse) == IF fuse THEN fr.collector ELSE current

\* The body of the driver's loop after the recursive call: the candidate is
\* built and either fused into the collector or made the collector.
Candidate ==
    /\ pc = "loop"
    /\ Top.it < Top.end
    /\ Top.subs_done
    /\ LET b == create_fusion_candidate(func, LA, CurrentLoop, variables)
           fuse == b.ok /\ ShouldFuse(Top, b.cand)
           r == IF fuse THEN fuse_with_first(func, LA, Top.collector, b.cand)
                ELSE [func |-> func, la |-> LA, events |-> <<>>, null_merge |-> FALSE]
           legality == IF b.ok /\ Top.collector_has_data
                       THEN EvolutionDiag(Top.collector, b.cand) ELSE <<>>
           lines == b.diag \o (IF b.ok THEN <<"Have a candidate">> ELSE <<>>)
                    \o legality \o (IF fuse THEN <<"Fused">> ELSE <<>>)
           an == ReplayTrees(r.events, FreshReplay(DT, func))
       IN /\ func' = r.func
          /\ LA' = r.la
          /\ DT' = an.trees
          /\ pc' = IF r.null_merge THEN "crash" ELSE pc
          /\ out' = out \o lines
          /\ stack' = SetTop([Top EXCEPT
                 !.it = @ + 1,
                 !.subs_done = FALSE,
                 !.collector = IF b.ok THEN NextCollector(Top, b.cand, fuse) ELSE @,
                 !.collector_has_data = @ \/ b.ok,
                 !.erased = @ \/ fuse])
          /\ last' = [kind |-> "candidate", loop |-> CurrentLoop, built |-> b.ok,
                      had_collector |-> Top.collector_has_data,
                      fusable |-> b.ok /\ Top.collector_has_data
                                  /\ can_be_fused(Top.collector, b.cand),
                      fused |-> fuse,
                      before |-> Top.collector, current |-> b.cand,
                      lines |-> Len(lines),
                      blocks1 |-> IF fuse THEN LA.blocks[Top.collector.loop] ELSE <<>>,
                      blocks2 |-> IF fuse THEN LA.blocks[b.cand.loop] ELSE <<>>,
                      header2 |-> IF fuse THEN func.instrs[b.cand.header] ELSE <<>>,
                      latch2 |-> IF fuse THEN func.instrs[b.cand.latch] ELSE <<>>,
                      stale_edits |-> an.stale_edits,
                      stale_queries |-> an.stale_queries]
    /\ UNCHANGED <<proc, variables>>

\* The driver's loop ends and the call returns.
Return ==
    /\ pc = "loop"
    /\ Top.it = Top.end
    /\ stack' = SubSeq(stack, 1, Len(stack) - 1)
    /\ pc' = IF Len(stack) = 1 THEN "done" ELSE pc
    /\ last' = [NoStep EXCEPT !.kind = "return"]
    /\ UNCHANGED <<proc, func, LA, DT, variables, out>>

\* The iterator of the running loop was invalidated by the erase of a
\* fusion; a build with checked iterators stops at its next use.
CheckedIteratorAbort ==
    /\ pc = "loop"
    /\ Top.erased
    /\ pc' = "abort"
    /\ last' = [NoStep EXCEPT !.kind = "abort"]
    /\ UNCHANGED <<proc, func, LA, DT, variables, stack, out>>

Next == Run \/ Recurse \/ Candidate \/ Return \/ CheckedIteratorAbort

Spec == Init /\ [][Next]_vars

\* The pass run on the scenarios.
ScenarioInit ==
    /\ proc \in Scenarios
    /\ pc = "run"
    /\ func = ProcFunc(proc)
    /\ LA = ProcLoopInfo(proc)
    /\ DT = NoTrees
    /\ variables = <<>>
    /\ stack = <<>>
    /\ out = <<>>
    /\ last = NoStep

ScenarioSpec == ScenarioInit /\ [][Next]_vars


(***************************************************************************)
(* Properties.  CheckedPair: the last step of the driver built a candidate *)
(* while a collector existed, so the pair (collector, current) is the pair *)
(* the checker is asked about.                                             *)
(***************************************************************************)
CheckedPair == last.kind = "candidate" /\ last.built /\ last.had_collector

\* Some write of one candidate is a write or a read of the other.
FootprintsIntersect(c1, c2) ==
    \/ SeqToSet(c1.writes) \cap (SeqToSet(c2.writes) \cup SeqToSet(c2.reads)) # {}
    \/ SeqToSet(c2.writes) \cap (SeqToSet(c1.writes) \cup SeqToSet(c1.reads)) # {}

\* C1: a pair of candidates in which a write-set element of one is a
\* write-set or read-set element of the other is never accepted by
\* can_be_fused, whatever the induction descriptors and the adjacency.
C1_IntersectingFootprintsRejected ==
    (CheckedPair /\ FootprintsIntersect(last.before, last.current))
        => ~can_be_fused(last.before, last.current)

\* C1 witness: a pair rejected for its footprints alone (equal evolution,
\* adjacent blocks).
C1_Witness ==
    /\ CheckedPair
    /\ FootprintsIntersect(last.before, last.current)
    /\ same_loop_evolution(last.before, last.current)
    /\ adjacent(last.before, last.current)
    /\ ~last.fused

\* The kind of value a descriptor field holds.
FieldKind(const, var) ==
    IF const # Null /\ var # Null THEN "both"
    ELSE IF const # Null THEN "const"
    ELSE IF var # Null THEN "var" ELSE "none"

\* One field holds, in both candidates, the same kind of value (a constant
\* or a variable reference, not both) and the same value.
SameKindAndValue(const1, var1, const2, var2) ==
    /\ FieldKind(const1, var1) = FieldKind(const2, var2)
    /\ FieldKind(const1, var1) \in {"const", "var"}
    /\ const1 = const2
    /\ var1 = var2

\* C2 (as claimed): whenever same_loop_evolution accepts a pair, each of
\* stop, advance and start holds the same kind of value in both candidates
\* and an equal value, and the advance_op tags are equal.
C2_AcceptedPairsAgreeOnKindAndValue ==
    (CheckedPair /\ same_loop_evolution(last.before, last.current)) =>
        LET i1 == last.before.induction
            i2 == last.current.induction
        IN /\ SameKindAndValue(i1.stop_const, i1.stop_variable,
                               i2.stop_const, i2.stop_variable)
           /\ SameKindAndValue(i1.advance_const, i1.advance_variable,
                               i2.advance_const, i2.advance_variable)
           /\ SameKindAndValue(i1.start_const, i1.start_variable,
                               i2.start_const, i2.start_variable)
           /\ i1.advance_op = i2.advance_op

\* The two descriptors agree on stop, advance, start and advance_op.
SameDescriptor(i1, i2) ==
    /\ i1.stop_const = i2.stop_const /\ i1.stop_variable = i2.stop_variable
    /\ i1.advance_const = i2.advance_const /\ i1.advance_variable = i2.advance_variable
    /\ i1.start_const = i2.start_const /\ i1.start_variable = i2.start_variable
    /\ i1.advance_op = i2.advance_op

\* Every constant of the descriptor is an integer or floating-point one.
NumericConstants(i) ==
    \A c \in {i.stop_const, i.advance_const, i.start_const} :
        c = Null \/ IsConstantInt(c) \/ IsConstantFP(c)

\* C3 (as claimed): adjacent candidates with the same descriptor and
\* footprints that do not intersect are accepted by can_be_fused.
C3_LegalPairAccepted ==
    (/\ CheckedPair
     /\ last.before.exit = last.current.preheader
     /\ SameDescriptor(last.before.induction, last.current.induction)
     /\ ~FootprintsIntersect(last.before, last.current))
        => can_be_fused(last.before, last.current)

\* C3 (amended): adjacent candidates with the same descriptor, whose
\* constants are integer or floating-point constants, and footprints that
\* do not intersect are accepted by can_be_fused.
C3_LegalNumericPairAccepted ==
    (/\ CheckedPair
     /\ last.before.exit = last.current.preheader
     /\ SameDescriptor(last.before.induction, last.current.induction)
     /\ NumericConstants(last.before.induction)
     /\ ~FootprintsIntersect(last.before, last.current))
        => can_be_fused(last.before, last.current)

\* C3 witness: such a pair was accepted and fused.
C3_Witness ==
    /\ CheckedPair
    /\ last.before.exit = last.current.preheader
    /\ SameDescriptor(last.before.induction, last.current.induction)
    /\ NumericConstants(last.before.induction)
    /\ ~FootprintsIntersect(last.before, last.current)
    /\ last.fused

\* C4: can_be_fused accepts a pair only when c1's exit block is c2's
\* preheader, and the driver never fuses a loop that blocks of the
\* procedure separate from the collector's exit.
C4_FusedOnlyWhenAdjacent ==
    /\ (CheckedPair /\ can_be_fused(last.before, last.current))
           => last.before.exit = last.current.preheader
    /\ (last.kind = "candidate" /\ last.fused)
           => /\ last.before.exit = last.current.preheader
              /\ proc.kinds[last.loop] # "gap"

\* C4 witness: a pair that only the blocks in between keep from fusing.
C4_Witness ==
    /\ CheckedPair
    /\ proc.kinds[last.loop] = "gap"
    /\ proc.kinds[last.before.loop] # "gap"
    /\ last.before.loop = last.loop - 1
    /\ same_loop_evolution(last.before, last.current)
    /\ ~dependent(last.before, last.current)
    /\ ~last.fused


\* The cycles of f that start at block path[1], stay inside the blocks S
\* and pass no block twice, as block sequences.
RECURSIVE CyclesAlong(_, _, _)
CyclesAlong(f, S, path) ==
    UNION {IF b = path[1] THEN {path}
           ELSE IF Contains(path, b) THEN {}
           ELSE CyclesAlong(f, S, Append(path, b)) :
              b \in SeqToSet(f.succ[path[Len(path)]]) \cap S}

Pos(path, b) == CHOOSE i \in 1..Len(path) : path[i] = b

\* The body blocks a candidate's loop had when blocks were its blocks.
BodyBlocks(candidate, blocks) == {b \in SeqToSet(blocks) : is_loop_body(candidate, b)}

\* Whether loop l is an element of the top-level loops or of some loop's
\* sub-loops.
InTree(la, l) ==
    \/ \E i \in 1..la.top.size : la.top.elems[i] = l
    \/ \E q \in Loops : \E i \in 1..la.sub[q].size : la.sub[q].elems[i] = l

JustFused == last.kind = "candidate" /\ last.fused

\* C5: after fuse_with_first every cycle of the surviving loop from c1's
\* header passes c1's original body blocks, then c2's original body
\* blocks, and then returns to c1's header; c1's loop survives and owns
\* every block of c2's loop that is still in the function.
C5_FusedLoopRunsBothBodiesInOrder ==
    JustFused =>
        LET c1 == last.before
            c2 == last.current
            region == LoopBlockSet(LA, c1.loop)
            body1 == BodyBlocks(c1, last.blocks1)
            body2 == BodyBlocks(c2, last.blocks2)
            cycles == CyclesAlong(func, region, <<c1.header>>)
        IN /\ cycles # {}
           /\ \A cy \in cycles :
                 /\ \A b \in body1 \cup body2 : Contains(cy, b)
                 /\ \A b1 \in body1 : \A b2 \in body2 : Pos(cy, b1) < Pos(cy, b2)
           /\ c1.loop \in LA.alive
           /\ c2.loop \notin LA.alive
           /\ \A b \in SeqToSet(last.blocks2) \cap func.blocks :
                 b \in region /\ getLoopFor(LA, b) = c1.loop

\* C5 witness: a fusion of two loops that both have body blocks.
C5_Witness ==
    /\ JustFused
    /\ BodyBlocks(last.before, last.blocks1) # {}
    /\ BodyBlocks(last.current, last.blocks2) # {}
    /\ SeqToSet(last.blocks2) \cap func.blocks # {}

ExitingBlocks(f, la, l) ==
    {q \in LoopBlockSet(la, l) :
        \E i \in 1..Len(f.succ[q]) : f.succ[q][i] \notin LoopBlockSet(la, l)}

\* The comparisons c2's header held and the binary operations c2's latch
\* held when the fusion started.
Comparisons2 == {i \in SeqToSet(last.header2) : i.op = "icmp"}

Advances2 == {i \in SeqToSet(last.latch2) : i.op = "binop"}

\* The instructions of the blocks of loop l.
RegionInstrs(f, la, l) == UNION {SeqToSet(f.instrs[b]) : b \in LoopBlockSet(la, l)}

C7_Doit1IsFused ==
    (pc = "done" /\ ~proc.nested /\ proc.kinds = <<"noStore", "noStore">>) =>
        /\ Contains(out, "Fused")
        /\ Cardinality(LA.alive) = 1
        /\ \A l \in LA.alive : {<<"body", 1>>, <<"body", 2>>} \subseteq LoopBlockSet(LA, l)

\* C8: the function and the loop info change only in a step of the driver
\* that calls fuse_with_first, on a pair can_be_fused has accepted; a step
\* whose candidate is not built or not accepted changes neither.
C8_OnlyAcceptedFusionMutates ==
    [][/\ (func' # func \/ LA' # LA) =>
            /\ last'.kind = "candidate" /\ last'.built /\ last'.had_collector
            /\ last'.fused
            /\ can_be_fused(last'.before, last'.current)
       /\ (last'.kind = "candidate"
           /\ (~last'.built \/ ~can_be_fused(last'.before, last'.current))) =>
            (func' = func /\ LA' = LA)]_vars

\* C8 witness: a run in which a candidate was not built (its counter is
\* never stored in the body) and a pair is now rejected for its stops.
C8_Witness ==
    /\ CheckedPair
    /\ EvolutionDiag(last.before, last.current) = <<"Loop stops are not equal">>
    /\ Contains(out, "Loop induction variable is not used.")
    /\ func = ProcFunc(proc)
    /\ LA = ProcLoopInfo(proc)

\* C9: a candidate that is built is fused into the collector when there is
\* one and can_be_fused accepts the pair, and then the collector is kept,
\* its loop is in the loop tree and current's loop is not; otherwise the
\* candidate becomes the collector.
C9_FuseOrBecomeCollector ==
    (last.kind = "candidate" /\ last.built) =>
        IF last.had_collector /\ can_be_fused(last.before, last.current)
        THEN /\ last.fused
             /\ Top.collector = last.before
             /\ last.before.loop \in LA.alive /\ InTree(LA, last.before.loop)
             /\ last.current.loop \notin LA.alive /\ ~InTree(LA, last.current.loop)
        ELSE /\ ~last.fused
             /\ Top.collector = last.current
             /\ Top.collector_has_data

\* C9 witness: a fusion into a collector.
C9_Witness ==
    JustFused /\ last.before.loop # last.current.loop /\ Top.collector = last.before

\* C10 (as claimed): when can_be_fused rejects the pair, the collector
\* after the step is the collector before it.
C10_RejectionKeepsCollector ==
    (CheckedPair /\ ~can_be_fused(last.before, last.current)) =>
        Top.collector = last.before

\* C10 (amended): when can_be_fused rejects the pair, the collector after
\* the step is the candidate just built.
C10_RejectionReplacesCollector ==
    (CheckedPair /\ ~can_be_fused(last.before, last.current)) =>
        (Top.collector = last.current /\ Top.collector_has_data)

\* C10 witness: a rejected pair of different candidates.
C10_Witness ==
    /\ CheckedPair
    /\ ~can_be_fused(last.before, last.current)
    /\ last.before # last.current
    /\ Top.collector = last.current


\* The lines the last step wrote that name a failure: all of its lines but
\* "Have a candidate" and "Fused".
FailureLines ==
    last.lines - (IF last.built THEN 1 ELSE 0) - (IF last.fused THEN 1 ELSE 0)

\* C11 (as claimed): a call of create_fusion_candidate that fails writes
\* exactly one line, and a call of can_be_fused that returns false writes
\* exactly one line, whatever made it false.
C11_OneLinePerFailure ==
    /\ (last.kind = "candidate" /\ ~last.built) => FailureLines = 1
    /\ (CheckedPair /\ ~can_be_fused(last.before, last.current)) => FailureLines = 1


\* The five blocks of a candidate.
FiveBlocks(c) == <<c.preheader, c.header, c.latch, c.pre_exit, c.exit>>

\* Some block the loop of c has in the procedure as given, other than c's
\* header, latch and pre-exit, holds a store to c's induction variable.
StoredInBody(c) ==
    \E b \in LoopBlockSet(ProcLoopInfo(proc), c.loop) :
        /\ b # c.header /\ b # c.latch /\ b # c.pre_exit
        /\ \E i \in 1..Len(ProcFunc(proc).instrs[b]) :
              LET ins == ProcFunc(proc).instrs[b][i]
              IN ins.op = "store" /\ ins.a1 = c.induction.induction_variable

JustBuilt == last.kind = "candidate" /\ last.built

\* C12 (as claimed): the five blocks of a built candidate are non-null and
\* pairwise distinct, and its induction variable is stored in a loop block
\* other than header, latch and pre-exit.
C12_FiveDistinctBlocks ==
    JustBuilt =>
        /\ ~Contains(FiveBlocks(last.current), NoBlock)
        /\ Cardinality(SeqToSet(FiveBlocks(last.current))) = 5
        /\ StoredInBody(last.current)

\* C12 (amended): the five blocks of a built candidate are non-null;
\* header, latch and pre-exit are blocks of the loop, preheader and exit
\* are not; and its induction variable is stored in a loop block other
\* than header, latch and pre-exit.
C12_FiveBlocksAndBodyStore ==
    JustBuilt =>
        LET c == last.current
            region == LoopBlockSet(ProcLoopInfo(proc), c.loop)
        IN /\ ~Contains(FiveBlocks(c), NoBlock)
           /\ {c.header, c.latch, c.pre_exit} \subseteq region
           /\ c.preheader \notin region /\ c.exit \notin region
           /\ c.induction.induction_variable # Null
           /\ StoredInBody(c)

\* C12 witness: a built candidate whose header is its pre-exit block.
C12_Witness ==
    JustBuilt /\ last.current.header = last.current.pre_exit /\ StoredInBody(last.current)


\* C13 (as claimed): in the descriptor of a built candidate each of start,
\* stop and advance holds exactly one of a constant and a variable
\* reference.
C13_ExactlyOneOfConstAndVariable ==
    JustBuilt =>
        LET i == last.current.induction
        IN /\ FieldKind(i.start_const, i.start_variable) \in {"const", "var"}
           /\ FieldKind(i.stop_const, i.stop_variable) \in {"const", "var"}
           /\ FieldKind(i.advance_const, i.advance_variable) \in {"const", "var"}


\* C14 (as claimed): no structural edit of fuse_with_first is made while
\* the trees are stale, and when it returns the trees are those of the
\* function as it is.
C14_TreesRecomputedAfterEveryEdit ==
    JustFused => (last.stale_edits = 0 /\ DT = Trees(func))


\* The instructions c1's latch had before the fusion, the instructions at
\* the front of c2's latch that it did not have before, and the
\* instructions of c1's latch in front of those c2's header had.
Latch1 == ProcFunc(proc).instrs[last.before.latch]

MovedToLatch2 ==
    SubSeq(func.instrs[last.current.latch], 1,
           Len(func.instrs[last.current.latch]) - Len(last.latch2))

KeptInLatch1 ==
    SubSeq(func.instrs[last.before.latch], 1,
           Len(func.instrs[last.before.latch]) - Len(last.header2))

EndsWith(s, t) ==
    Len(t) <= Len(s) /\ SubSeq(s, Len(s) - Len(t) + 1, Len(s)) = t

\* A fusion that fuse_with_first completed.
FusionDone == JustFused /\ pc # "crash"

Compared(const, var) == IF const # Null THEN const ELSE var

\* The value a scan takes from an operand: the constant itself, or the
\* location the variable map gives for it.
Resolved(v) == IF IsConstantInt(v) THEN v ELSE Lookup(variables, v)

LastOf(s) == s[Len(s)]

\* C16 (as claimed): the start of a built candidate that same_loop_evolution
\* compares is the value of the last store of its preheader, and its
\* advance and advance_op are those of the last binary operation of its
\* latch.
C16_LastStoreAndLastBinopWin ==
    JustBuilt =>
        LET c == last.current
            i == c.induction
            stores == SelectSeq(ProcFunc(proc).instrs[c.preheader], LAMBDA x : x.op = "store")
            binops == SelectSeq(ProcFunc(proc).instrs[c.latch], LAMBDA x : x.op = "binop")
        IN /\ stores # <<>> /\ binops # <<>>
           /\ Compared(i.start_const, i.start_variable) = Resolved(LastOf(stores).a0)
           /\ Compared(i.advance_const, i.advance_variable) = Resolved(LastOf(binops).a1)
           /\ i.advance_op = LastOf(binops).opc


\* The function and the loop info the last candidate was built on.
BuiltOnFunc == IF last.fused THEN ProcFunc(proc) ELSE func

BuiltOnLoops == IF last.fused THEN ProcLoopInfo(proc) ELSE LA

\* get_loop_memops has run for the candidate of the last step.
MemopsRan == last.kind = "candidate" /\ last.current.loop # NoLoop

\* The instructions, in getBlocks() order, of the blocks of c's loop that
\* are neither c's header nor in quiet.
BodySeq(c, quiet) ==
    Flatten([n \in 1..Len(BuiltOnLoops.blocks[c.loop]) |->
               LET b == BuiltOnLoops.blocks[c.loop][n]
               IN IF b = c.header \/ b \in quiet THEN <<>> ELSE BuiltOnFunc.instrs[b]])

\* What the access at place n of the sequence B adds to a footprint: the
\* base of the last address computation before it that no access has
\* consumed, else its own address operand.
Contribution(B, n) ==
    LET pending == {m \in 1..(n - 1) :
                      /\ B[m].op = "gep"
                      /\ \A q \in (m + 1)..(n - 1) : B[q].op \notin {"load", "store"}}
    IN IF pending = {} THEN Address(B[n])
       ELSE B[CHOOSE m \in pending : \A q \in pending : q <= m].a0

\* The contributions of the accesses of class op of B, in order.
Contributions(B, op) ==
    LET places == SelectSeq([n \in 1..Len(B) |-> n], LAMBDA n : B[n].op = op)
    IN [j \in 1..Len(places) |-> Contribution(B, places[j])]

\* The footprints of the policy when the header's loads count (or not) and
\* the blocks of quiet contribute nothing.
PolicyFootprint(c, header_counts, quiet) ==
    LET loads == IF header_counts
                 THEN SelectSeq(BuiltOnFunc.instrs[c.header], LAMBDA x : x.op = "load")
                 ELSE <<>>
        B == BodySeq(c, quiet)
    IN [writes |-> (IF loads = <<>> THEN <<>> ELSE <<loads[1].a0>>)
                   \o Contributions(B, "store"),
        reads |-> (IF loads = <<>> THEN <<>> ELSE [j \in 1..(Len(loads) - 1) |-> loads[j + 1].a0])
                  \o Contributions(B, "load")]

Footprint(c) == [writes |-> c.writes, reads |-> c.reads]

\* C17 (as claimed): the footprints are those of the policy, in which the
\* latch and the pre-exit block contribute nothing.
C17_MemopsPolicy ==
    MemopsRan =>
        LET c == last.current
        IN Footprint(c) = PolicyFootprint(c, c.header \notin {c.latch, c.pre_exit},
                                          {c.latch, c.pre_exit})

\* C17 (amended): the footprints are those of the policy, in which the
\* header's loads count also when the header is the pre-exit block, and
\* the latch and a pre-exit block other than the header contribute nothing.
C17_MemopsPolicyHeaderFirst ==
    MemopsRan =>
        Footprint(last.current)
            = PolicyFootprint(last.current, TRUE, {last.current.latch, last.current.pre_exit})

\* C17 witness: a body in which an address computation overwrites an
\* unconsumed one and a load consumes it.
C17_Witness ==
    /\ MemopsRan
    /\ last.loop # Outer
    /\ proc.kinds[last.loop] = "custom"
    /\ proc.body = <<GEP(Var("p", 0), Var("a", 0)), GEP(Var("p", 0), Var("b", 0)),
                     Load(Var("ld.p", 0), Var("p", 0))>>
    /\ last.current.reads = <<Var("b", 0)>>


\* C18 (as claimed): the driver's traversal stays inside the sequence it
\* iterates, also after an erase: the element it has read for the current
\* iteration of any active call is an element of the sequence as it is,
\* and no run is stopped on an invalidated iterator.
C18_TraversalStaysInSequence ==
    /\ pc # "abort"
    /\ \A n \in 1..Len(stack) :
          stack[n].subs_done => stack[n].it <= VecOf(LA, stack[n].loops).size

\* The original sibling loops whose body block is now a block of loop l.
OriginalsIn(l) ==
    {k \in Siblings : <<"body", k>> \in func.blocks /\ getLoopFor(LA, <<"body", k>>) = l}

\* The collector of the pair just checked had absorbed a loop before: the
\* block its exit names was removed with that loop's preheader.
CollectorHadAbsorbed == CheckedPair /\ ~last.fused /\ last.before.exit \notin func.blocks

\* C19: fuse_with_first leaves the collector record as it was: after a
\* fusion the frame's collector is the record of before, its exit names the
\* absorbed loop's preheader, which is no longer a block of the function,
\* and its write-set and read-set hold no write of the absorbed loop; a
\* later sibling checked against such a collector is not adjacent to it
\* and is not fused; and every surviving loop holds the body of at most two
\* original loops.
C19_CollectorStaleAtMostTwoFused ==
    /\ JustFused =>
          /\ Top.collector = last.before
          /\ Top.collector.exit = last.current.preheader
          /\ Top.collector.exit \notin func.blocks
          /\ last.current.writes # <<>>
          /\ SeqToSet(last.current.writes)
                \cap (SeqToSet(Top.collector.writes) \cup SeqToSet(Top.collector.reads)) = {}
    /\ CollectorHadAbsorbed =>
          /\ ~adjacent(last.before, last.current)
          /\ ~last.fusable
          /\ Top.collector = last.current
    /\ \A l \in LA.alive : Cardinality(OriginalsIn(l)) <= 2

\* C19 witness: the third of three adjacent siblings is checked against the
\* collector that absorbed the second; the descriptors agree and the
\* footprints are independent, and the pair is rejected all the same.
C19_Witness ==
    /\ CollectorHadAbsorbed
    /\ last.before.loop = 1
    /\ last.current.loop = 3
    /\ last.current.preheader = <<"end", 2>>
    /\ same_loop_evolution(last.before, last.current)
    /\ ~dependent(last.before, last.current)
    /\ Cardinality(OriginalsIn(1)) = 2

\* The induction-variable handle of a candidate.
Handle(c) == c.induction.induction_variable

\* C20: every candidate that create_fusion_candidate builds has its
\* induction-variable handle in its write-set; so a checked pair with one
\* handle is dependent and is not accepted, and no candidate can be fused
\* with itself.
C20_HandleIsWritten ==
    /\ JustBuilt =>
          /\ Handle(last.current) # Null
          /\ Contains(last.current.writes, Handle(last.current))
          /\ dependent(last.current, last.current)
          /\ ~can_be_fused(last.current, last.current)
    /\ (CheckedPair /\ Handle(last.before) = Handle(last.current)) =>
          /\ dependent(last.before, last.current)
          /\ ~can_be_fused(last.before, last.current)
          /\ ~last.fused

\* C20 witness: two adjacent loops of one evolution that count in the same
\* variable are checked, and only the dependence check stands between them
\* and a fusion.
C20_Witness ==
    /\ CheckedPair
    /\ last.before.loop # last.current.loop
    /\ Handle(last.before) = Handle(last.current)
    /\ adjacent(last.before, last.current)
    /\ same_loop_evolution(last.before, last.current)
    /\ ~last.fused

====
